---- MODULE Spec2Model ----
(***************************************************************************)
(* State-machine model of the ERC-721 token chaincode                      *)
(* token-erc-721/chaincode-go/token_erc_721.go.                            *)
(*                                                                         *)
(* The state is the channel's world state as this chaincode sees it: the   *)
(* token records under the "nft" prefix, the balance index under the       *)
(* "balance" prefix, the operator approvals under the "approval" prefix    *)
(* and the plain (non-composite) keys that Approve looks up.  Every        *)
(* exported transaction of the contract is one action; `last` holds the    *)
(* invocation that was executed last together with its response and the    *)
(* event it set.                                                           *)
(*                                                                         *)
(* The world state outlives any one invocation, and the contract's         *)
(* operations are specified for an arbitrary ledger, so Init ranges over   *)
(* the empty ledger and over the ledgers that satisfy the data model       *)
(* (live tokens with a non-empty owner, one balance entry per live token). *)
(***************************************************************************)
EXTENDS Integers, FiniteSets, Sequences, TLC

\* ------------------------------------------------------------------------
\* Bounded input domains

\* Client identities (GetClientIdentity().getID()).
Clients == {"I", "B", "C"}

\* Strings that are passed as from / to / approved arguments; "" is the
\* zero value of an identity string.
Parties == Clients \cup {""}

\* Identities named as operator in SetApprovalForAll.
Operators == {"B"}

\* TokenID argument strings: an integer, the same integer written with a
\* leading zero, and a string that is no integer.
TokenIDs == {"1", "01", "x"}

\* Number of distinct token URIs used by the invocations.
NumURIs == 1

\* Cap on the number of operator-approval records in the world state.
MaxApprovals == 2

URIString(n) ==
  CASE n = 1 -> "ipfs://x" [] n = 2 -> "ipfs://y" [] n = 3 -> "ipfs://z" [] OTHER -> "ipfs://w"

URIs == {URIString(n) : n \in 1..NumURIs}

\* Plain keys that may hold a value in the world state.
AccountKeys == {"B"}

\* ------------------------------------------------------------------------
\* Program constants and library functions

IssuerMSP == "Org1MSP"

\* getMSPID() of each client: I belongs to the issuer organisation.
MSPID(c) == IF c = "I" THEN "Org1MSP" ELSE "Org2MSP"

\* strconv.Atoi on the TokenID strings: [err, val].
Atoi(s) ==
  CASE s = "1" -> [err |-> FALSE, val |-> 1]
    [] s = "01" -> [err |-> FALSE, val |-> 1]
    [] OTHER -> [err |-> TRUE, val |-> 0]

\* ------------------------------------------------------------------------
\* World state

VARIABLES
  nft,       \* "nft" + [TokenID] -> stored Token (the JSON of a Token struct)
  balance,   \* set of <<owner, TokenID>>: the keys "balance" + [owner, TokenID]
  approval,  \* "approval" + [owner, operator] -> stored JSON bytes
  accounts,  \* plain keys of the world state that hold a value
  last,      \* the invocation executed last, its response and its event
  before     \* the world state that invocation was executed on

vars == <<nft, balance, approval, accounts, last, before>>

\* The part of the world state the transactions write.
ledger == <<nft, balance, approval>>

\* The Token struct; Name and Symbol are never populated.
Token(id, uri, owner, approved) ==
  [TokenID |-> id, TokenURI |-> uri, Name |-> "", Symbol |-> "",
   Owner |-> owner, Approved |-> approved]

\* Zero value of the Token struct, returned next to an error.
ZeroToken == Token(0, "", "", "")

\* json.Marshal of an eventApprovedForAll: every field of the struct is
\* unexported, so encoding/json writes none of them.
MarshalApprovedForAll(owner, operator, approved) == "{}"

\* json.Unmarshal into an eventApprovedForAll: no field is exported, so none
\* is set and the struct keeps its zero value whatever the bytes are.
UnmarshalApprovedForAll(bytes) == [owner |-> "", operator |-> "", approved |-> FALSE]

\* json.Marshal of an eventtoken / eventApproved: only TokenID is exported.
MarshalTokenEvent(a, b, id) == {<<"TokenID", id>>}

\* Events as <<name, payload>>; payload is the set of JSON members.
NoEvent == <<"", {}>>

Event(name, payload) == <<name, payload>>

\* ------------------------------------------------------------------------
\* Read-only transactions and helpers, as functions of the world state

\* Variant of ReadNFT that returns the zero Token and no error when no
\* record is stored under the key.
ReadNFTAbsentIsUnminted(n, TokenID) ==
  IF TokenID \notin DOMAIN n
  THEN [err |-> "", token |-> ZeroToken]
  ELSE [err |-> "", token |-> n[TokenID]]

\* ReadNFT: [err, token].
ReadNFT(n, TokenID) ==
  IF TokenID \notin DOMAIN n
  THEN [err |-> "does not exist", token |-> ZeroToken]
  ELSE [err |-> "", token |-> n[TokenID]]

\* IsApprovedForAll: the approved flag decoded from the stored record.
IsApprovedForAll(a, owner, operator) ==
  IF <<owner, operator>> \in DOMAIN a
  THEN UnmarshalApprovedForAll(a[<<owner, operator>>]).approved
  ELSE FALSE

\* GetApproved: [err, value].
GetApproved(n, TokenID) ==
  LET r == ReadNFT(n, TokenID)
  IN IF r.err # "" THEN [err |-> "Cannot get token", value |-> ""]
     ELSE [err |-> "", value |-> r.token.Approved]

\* OwnerOf: [err, value].
OwnerOf(n, TokenID) ==
  LET r == ReadNFT(n, TokenID)
  IN IF r.err # "" THEN [err |-> "Cannot get token", value |-> ""]
     ELSE IF r.token.Owner = "" THEN [err |-> "No owner is assigned", value |-> ""]
     ELSE [err |-> "", value |-> r.token.Owner]

\* BalanceOf: the number of keys balance.Owner.*
BalanceOf(b, Owner) == Cardinality({k \in b : k[1] = Owner})

\* PutState / DeleteState on the token records.
PutNFT(n, TokenID, token) ==
  [k \in DOMAIN n \cup {TokenID} |-> IF k = TokenID THEN token ELSE n[k]]

DelNFT(n, TokenID) == [k \in DOMAIN n \ {TokenID} |-> n[k]]

\* PutState on the approval records.
PutApproval(a, owner, operator, bytes) ==
  [k \in DOMAIN a \cup {<<owner, operator>>} |->
     IF k = <<owner, operator>> THEN bytes ELSE a[k]]

\* What an invocation leaves behind: the written world state, the response
\* (err = "" for a nil error or a true result) and the event.
Outcome(n, b, a, err, ev) ==
  [nft |-> n, balance |-> b, approval |-> a, err |-> err, event |-> ev]

Failed(err) == Outcome(nft, balance, approval, err, NoEvent)

\* ------------------------------------------------------------------------
\* The transactions: the outcome of each on the current world state

\* Variant of MintRefused with the comparison inverted.
MintRefusedInverted(clientMSPID) == clientMSPID = IssuerMSP

\* The minter authorization test: TRUE when the client may not mint.
MintRefused(clientMSPID) == clientMSPID # IssuerMSP

\* Variant of AlreadyMinted that tests the approved field instead of the owner.
AlreadyMintedByApproved(token) == token.Approved # ""

\* The existence test of MintWithTokenURI: TRUE when the token is minted.
AlreadyMinted(token) == token.Owner # ""

\* MintWithTokenURI invoked by `caller`.
MintWithTokenURI(caller, TokenID, TokenURI) ==
  LET minter == caller
      r == ReadNFT(nft, TokenID)
      conv == Atoi(TokenID)
  IN IF MintRefused(MSPID(caller)) THEN Failed("client is not authorized to mint new tokens")
     ELSE IF r.err # "" THEN Failed("Cannot get token")
     ELSE IF AlreadyMinted(r.token) THEN Failed("already minted")
     ELSE IF conv.err THEN Failed("tokenID is invalid")
     ELSE Outcome(PutNFT(nft, TokenID, Token(conv.val, TokenURI, minter, "")),
                  balance \cup {<<minter, TokenID>>},
                  approval,
                  "",
                  Event("Transfer", MarshalTokenEvent("0x0", minter, conv.val)))

\* Variant of TransferRefused with the negation of operatorApproval dropped.
TransferRefusedNegationDropped(owner, approved, from, operatorApproval) ==
  owner # from /\ approved # from /\ operatorApproval

\* The authorization test of TransferFrom: TRUE when the transfer is refused.
TransferRefused(owner, approved, from, operatorApproval) ==
  owner # from /\ approved # from /\ ~operatorApproval

\* Variant of TransferredToken that leaves the approved client in place.
TransferredTokenKeepsApproval(token, to) == [token EXCEPT !.Owner = to]

\* The token record TransferFrom writes: new owner, approval cleared.
TransferredToken(token, to) == [token EXCEPT !.Owner = to, !.Approved = ""]

\* The balance-index writes of TransferFrom.
TransferIndex(b, from, to, TokenID) ==
  (b \ {<<from, TokenID>>}) \cup {<<to, TokenID>>}

\* Variant of TransferFrom that tests the authorization of the sender, the
\* invoking client, where the code tests the argument `from`.
TransferFromSenderChecked(caller, from, to, TokenID) ==
  LET conv == Atoi(TokenID)
      sender == caller
      r == ReadNFT(nft, TokenID)
      owner == r.token.Owner
      approved == r.token.Approved
      operatorApproval == IsApprovedForAll(approval, owner, sender)
  IN IF conv.err THEN Failed("tokenID is invalid")
     ELSE IF r.err # "" THEN Failed("Cannot get token")
     ELSE IF TransferRefused(owner, approved, sender, operatorApproval)
          THEN Failed("not the current owner nor authorized operator")
     ELSE Outcome(PutNFT(nft, TokenID, TransferredToken(r.token, to)),
                  TransferIndex(balance, from, to, TokenID),
                  approval,
                  "",
                  Event("Transfer", MarshalTokenEvent(from, to, conv.val)))

\* TransferFrom invoked by `caller` (the sender is read and never used).
TransferFrom(caller, from, to, TokenID) ==
  LET conv == Atoi(TokenID)
      r == ReadNFT(nft, TokenID)
      owner == r.token.Owner
      approved == r.token.Approved
      operatorApproval == IsApprovedForAll(approval, owner, from)
  IN IF conv.err THEN Failed("tokenID is invalid")
     ELSE IF r.err # "" THEN Failed("Cannot get token")
     ELSE IF TransferRefused(owner, approved, from, operatorApproval)
          THEN Failed("not the current owner nor authorized operator")
     ELSE Outcome(PutNFT(nft, TokenID, TransferredToken(r.token, to)),
                  TransferIndex(balance, from, to, TokenID),
                  approval,
                  "",
                  Event("Transfer", MarshalTokenEvent(from, to, conv.val)))

\* Variant of ApproveRefused that also lets the approved client of the token
\* approve, as the test of TransferFrom does.
ApproveRefusedUnlessApproved(token, sender, operatorApproval) ==
  sender # token.Owner /\ sender # token.Approved /\ ~operatorApproval

\* The authorization test of Approve: TRUE when the approval is refused.
ApproveRefused(token, sender, operatorApproval) ==
  sender # token.Owner /\ ~operatorApproval

\* Approve invoked by `caller`; a false result is reported as an error text.
Approve(caller, approved, TokenID) ==
  LET conv == Atoi(TokenID)
      sender == caller
      r == ReadNFT(nft, TokenID)
      tokenOwner == r.token.Owner
      operatorApproval == IsApprovedForAll(approval, tokenOwner, sender)
  IN IF conv.err THEN Failed("tokenID is invalid")
     ELSE IF r.err # "" THEN Failed("Cannot get token")
     ELSE IF approved \notin accounts THEN Failed("'Approved' account does not exist")
     ELSE IF ApproveRefused(r.token, sender, operatorApproval)
          THEN Failed("sender is not correct owner nor authorized person")
     ELSE Outcome(PutNFT(nft, TokenID, [r.token EXCEPT !.Approved = approved]),
                  balance,
                  approval,
                  "",
                  Event("Approval", MarshalTokenEvent(tokenOwner, approved, conv.val)))

\* SetApprovalForAll invoked by `caller`.
SetApprovalForAll(caller, operator, approved) ==
  LET sender == caller
  IN Outcome(nft,
             balance,
             PutApproval(approval, sender, operator,
                         MarshalApprovedForAll(sender, operator, approved)),
             "",
             Event("ApprovalForAll", {}))

\* Variant of BurnRefused that also lets the approved client of the token burn.
BurnRefusedUnlessApproved(token, owner) ==
  token.Owner # owner /\ token.Approved # owner

\* The ownership test of Burn: TRUE when the burn is refused.
BurnRefused(token, owner) == token.Owner # owner

\* Variant of BurnIndex that leaves the balance key in place.
BurnIndexKept(b, owner, TokenID) == b

\* The balance-index write of Burn.
BurnIndex(b, owner, TokenID) == b \ {<<owner, TokenID>>}

\* Burn invoked by `caller`; a false result is reported as an error text.
Burn(caller, TokenID) ==
  LET owner == caller
      conv == Atoi(TokenID)
      r == ReadNFT(nft, TokenID)
  IN IF conv.err THEN Failed("tokenID is invalid")
     ELSE IF r.err # "" THEN Failed("Cannot get token")
     ELSE IF BurnRefused(r.token, owner) THEN Failed("not owned by caller")
     ELSE Outcome(DelNFT(nft, TokenID),
                  BurnIndex(balance, owner, TokenID),
                  approval,
                  "",
                  Event("Transfer", MarshalTokenEvent(owner, "0x0", conv.val)))

\* ------------------------------------------------------------------------
\* Actions

\* No transfer of a token to a new owner has been recorded.
NoMove == [TokenID |-> "", N |-> "", delegates |-> {}, granted |-> {}]

\* The invocation record kept in `last`; unused arguments are "" / FALSE.
\* fault is the number of the ledger write that failed during the invocation
\* (0 when every write succeeded); moved is the record of the last transfer
\* of a token to a new owner, kept by SpecMoved only.
Invocation(op, caller, from, to, TokenID, uri, flag, out) ==
  [op |-> op, caller |-> caller, from |-> from, to |-> to, TokenID |-> TokenID,
   uri |-> uri, flag |-> flag, ok |-> (out.err = ""), err |-> out.err,
   event |-> out.event, fault |-> 0, moved |-> NoMove]

\* Execute one invocation: commit its writes and record its response.  The
\* peer executes an invocation once the previous response has been returned.
Commit(out, inv) ==
  /\ last.op = ""
  /\ nft' = out.nft
  /\ balance' = out.balance
  /\ approval' = out.approval
  /\ last' = inv
  /\ before' = [nft |-> nft, balance |-> balance, approval |-> approval]
  /\ UNCHANGED accounts

DoMint ==
  \E c \in Clients, t \in TokenIDs, u \in URIs :
    LET out == MintWithTokenURI(c, t, u)
    IN Commit(out, Invocation("MintWithTokenURI", c, "", "", t, u, FALSE, out))

DoTransferFrom ==
  \E c \in Clients, f \in Parties, to \in Parties, t \in TokenIDs :
    LET out == TransferFrom(c, f, to, t)
    IN Commit(out, Invocation("TransferFrom", c, f, to, t, "", FALSE, out))

DoApprove ==
  \E c \in Clients, a \in Parties, t \in TokenIDs :
    LET out == Approve(c, a, t)
    IN Commit(out, Invocation("Approve", c, "", a, t, "", FALSE, out))

DoSetApprovalForAll ==
  \E c \in Clients, o \in Operators, flag \in BOOLEAN :
    /\ <<c, o>> \in DOMAIN approval \/ Cardinality(DOMAIN approval) < MaxApprovals
    /\ LET out == SetApprovalForAll(c, o, flag)
       IN Commit(out, Invocation("SetApprovalForAll", c, "", o, "", "", flag, out))

DoBurn ==
  \E c \in Clients, t \in TokenIDs :
    LET out == Burn(c, t)
    IN Commit(out, Invocation("Burn", c, "", "", t, "", FALSE, out))

\* ------------------------------------------------------------------------
\* Initial world states

\* Before the first invocation.
NoInvocation ==
  [op |-> "", caller |-> "", from |-> "", to |-> "", TokenID |-> "", uri |-> "",
   flag |-> FALSE, ok |-> TRUE, err |-> "", event |-> NoEvent, fault |-> 0,
   moved |-> NoMove]

\* The ledgers the model starts from: the empty ledger and the ledgers that
\* satisfy the data model.  Every stored token has a non-empty owner and the
\* tokenID its key parses to, and no two tokens have the same tokenID.
SeedKeySets ==
  {ks \in SUBSET TokenIDs :
     /\ \A k \in ks : ~Atoi(k).err
     /\ \A k1, k2 \in ks : Atoi(k1).val = Atoi(k2).val => k1 = k2}

SeedLedgers ==
  UNION {[ks -> {Token(1, u, o, a) : u \in URIs, o \in Clients, a \in Parties}] :
           ks \in SeedKeySets}

Init ==
  /\ nft \in SeedLedgers
  /\ balance = {<<nft[k].Owner, k>> : k \in DOMAIN nft}
  /\ approval = <<>>
  /\ accounts \in SUBSET AccountKeys
  /\ last = NoInvocation
  /\ before = [nft |-> nft, balance |-> balance, approval |-> approval]

\* The peer returns the response and event of the invocation to the client;
\* the transaction context is discarded.
Respond ==
  /\ last.op # ""
  /\ last' = NoInvocation
  /\ before' = [nft |-> nft, balance |-> balance, approval |-> approval]
  /\ UNCHANGED <<nft, balance, approval, accounts>>

Next ==
  \/ Respond
  \/ DoMint
  \/ DoTransferFrom
  \/ DoApprove
  \/ DoSetApprovalForAll
  \/ DoBurn

Spec == Init /\ [][Next]_vars

\* ------------------------------------------------------------------------
\* Storage failures.  The fault-th PutState / DeleteState call of an
\* invocation returns an error and writes nothing (fault = 0: none fails).
\* The peer discards every write of an invocation that returns an error and
\* commits the writes of an invocation that returns a value, false included.

\* MintWithTokenURI drops the results of both PutState calls: the failed
\* write is missing, the other one is made, the event is set and nil returned.
MintWithTokenURIFaulty(caller, TokenID, TokenURI, fault) ==
  LET out == MintWithTokenURI(caller, TokenID, TokenURI)
  IN IF out.err # "" \/ fault = 0 THEN out
     ELSE Outcome(IF fault = 1 THEN nft ELSE out.nft,
                  IF fault = 2 THEN balance ELSE out.balance,
                  approval,
                  "",
                  out.event)

\* TransferFrom returns an error after a failed PutState(nftKey),
\* DeleteState(balanceKeyFrom) or PutState(balanceKeyTo).
TransferFromFaulty(caller, from, to, TokenID, fault) ==
  LET out == TransferFrom(caller, from, to, TokenID)
  IN IF out.err # "" \/ fault = 0 THEN out
     ELSE IF fault = 1 THEN Failed("failed to put token")
     ELSE IF fault = 2 THEN Failed("failed to delete composite key for balance")
     ELSE Failed("failed to put balance")

\* Approve returns false after a failed PutState(nftKey), its only write.
ApproveFaulty(caller, approved, TokenID, fault) ==
  LET out == Approve(caller, approved, TokenID)
  IN IF out.err # "" \/ fault = 0 THEN out
     ELSE Failed("failed to put token")

\* SetApprovalForAll returns an error after a failed PutState(approvalKey).
SetApprovalForAllFaulty(caller, operator, approved, fault) ==
  LET out == SetApprovalForAll(caller, operator, approved)
  IN IF out.err # "" \/ fault = 0 THEN out
     ELSE Failed("failed to update state of smart contract")

\* Burn returns false after a failed DeleteState; when the second one fails
\* the delete of the token record has been made already.
BurnFaulty(caller, TokenID, fault) ==
  LET out == Burn(caller, TokenID)
  IN IF out.err # "" \/ fault = 0 THEN out
     ELSE IF fault = 1 THEN Failed("failed to delete nft key")
     ELSE Outcome(out.nft, balance, approval, "failed to delete balance key", NoEvent)

\* A fault strikes only an invocation that reaches its writes.
Struck(out, fault) == fault = 0 \/ out.err = ""

DoMintFaulty ==
  \E c \in Clients, t \in TokenIDs, u \in URIs, f \in 0..2 :
    LET out == MintWithTokenURIFaulty(c, t, u, f)
    IN /\ last.op = ""
       /\ Struck(MintWithTokenURI(c, t, u), f)
       /\ Commit(out, [Invocation("MintWithTokenURI", c, "", "", t, u, FALSE, out)
                         EXCEPT !.fault = f])

DoTransferFromFaulty ==
  \E c \in Clients, fr \in Parties, to \in Parties, t \in TokenIDs, f \in 0..3 :
    LET out == TransferFromFaulty(c, fr, to, t, f)
    IN /\ last.op = ""
       /\ Struck(TransferFrom(c, fr, to, t), f)
       /\ Commit(out, [Invocation("TransferFrom", c, fr, to, t, "", FALSE, out)
                         EXCEPT !.fault = f])

DoApproveFaulty ==
  \E c \in Clients, a \in Parties, t \in TokenIDs, f \in 0..1 :
    LET out == ApproveFaulty(c, a, t, f)
    IN /\ last.op = ""
       /\ Struck(Approve(c, a, t), f)
       /\ Commit(out, [Invocation("Approve", c, "", a, t, "", FALSE, out)
                         EXCEPT !.fault = f])

DoSetApprovalForAllFaulty ==
  \E c \in Clients, o \in Operators, flag \in BOOLEAN, f \in 0..1 :
    /\ last.op = ""
    /\ <<c, o>> \in DOMAIN approval \/ Cardinality(DOMAIN approval) < MaxApprovals
    /\ LET out == SetApprovalForAllFaulty(c, o, flag, f)
       IN Commit(out, [Invocation("SetApprovalForAll", c, "", o, "", "", flag, out)
                         EXCEPT !.fault = f])

DoBurnFaulty ==
  \E c \in Clients, t \in TokenIDs, f \in 0..2 :
    LET out == BurnFaulty(c, t, f)
    IN /\ last.op = ""
       /\ Struck(Burn(c, t), f)
       /\ Commit(out, [Invocation("Burn", c, "", "", t, "", FALSE, out)
                         EXCEPT !.fault = f])

NextFaulty ==
  \/ Respond
  \/ DoMintFaulty
  \/ DoTransferFromFaulty
  \/ DoApproveFaulty
  \/ DoSetApprovalForAllFaulty
  \/ DoBurnFaulty

\* The contract on a ledger whose writes may fail.
SpecFaulty == Init /\ [][NextFaulty]_vars

\* ------------------------------------------------------------------------
\* Concurrent proposals.  Two invocations are simulated on the same world
\* state; each leaves the set of keys it read and the set of keys it wrote.
\* The host orders them and commits the second only if no key it read was
\* written by the first.

NFTKey(TokenID) == <<"nft", TokenID>>
BalanceKey(owner, TokenID) == <<"balance", owner, TokenID>>
ApprovalKey(owner, operator) == <<"approval", owner, operator>>

\* Variant of ReadNFTKeys in which the token read leaves no key in the read
\* set.
ReadNFTKeysNone(TokenID) == {}

\* Keys read by ReadNFT and by IsApprovedForAll.
ReadNFTKeys(TokenID) == {NFTKey(TokenID)}
IsApprovedForAllKeys(owner, operator) == {ApprovalKey(owner, operator)}

\* The invocations of the transactions that write token records.
Proposals ==
  {[op |-> "MintWithTokenURI", caller |-> c, from |-> "", to |-> "",
    TokenID |-> t, uri |-> u] : c \in Clients, t \in TokenIDs, u \in URIs}
  \cup {[op |-> "TransferFrom", caller |-> c, from |-> fr, to |-> to,
         TokenID |-> t, uri |-> ""] :
          c \in Clients, fr \in Parties, to \in Parties, t \in TokenIDs}
  \cup {[op |-> "Approve", caller |-> c, from |-> "", to |-> a,
         TokenID |-> t, uri |-> ""] :
          c \in Clients, a \in Parties, t \in TokenIDs}
  \cup {[op |-> "Burn", caller |-> c, from |-> "", to |-> "",
         TokenID |-> t, uri |-> ""] : c \in Clients, t \in TokenIDs}

\* The outcome of simulating proposal p on the current world state.
Simulate(p) ==
  CASE p.op = "MintWithTokenURI" -> MintWithTokenURI(p.caller, p.TokenID, p.uri)
    [] p.op = "TransferFrom" -> TransferFrom(p.caller, p.from, p.to, p.TokenID)
    [] p.op = "Approve" -> Approve(p.caller, p.to, p.TokenID)
    [] p.op = "Burn" -> Burn(p.caller, p.TokenID)

\* Keys read (GetState) by a simulation of p that reaches its writes.
ReadSet(p) ==
  LET owner == ReadNFT(nft, p.TokenID).token.Owner
  IN CASE p.op = "MintWithTokenURI" -> ReadNFTKeys(p.TokenID)
       [] p.op = "TransferFrom" ->
            ReadNFTKeys(p.TokenID) \cup IsApprovedForAllKeys(owner, p.from)
       [] p.op = "Approve" ->
            ReadNFTKeys(p.TokenID) \cup {<<p.to>>}
              \cup IsApprovedForAllKeys(owner, p.caller)
       [] p.op = "Burn" -> ReadNFTKeys(p.TokenID)

\* Keys written (PutState, DeleteState) by a simulation of p that succeeds.
WriteSet(p) ==
  CASE p.op = "MintWithTokenURI" ->
         {NFTKey(p.TokenID), BalanceKey(p.caller, p.TokenID)}
    [] p.op = "TransferFrom" ->
         {NFTKey(p.TokenID), BalanceKey(p.from, p.TokenID),
          BalanceKey(p.to, p.TokenID)}
    [] p.op = "Approve" -> {NFTKey(p.TokenID)}
    [] p.op = "Burn" -> {NFTKey(p.TokenID), BalanceKey(p.caller, p.TokenID)}

\* Host: world state led after the writes of outcome out to the keys in keys.
ApplyWrites(led, out, keys) ==
  [nft |-> [k \in {t \in DOMAIN led.nft : NFTKey(t) \notin keys}
                  \cup {t \in DOMAIN out.nft : NFTKey(t) \in keys} |->
              IF NFTKey(k) \in keys THEN out.nft[k] ELSE led.nft[k]],
   balance |-> {e \in led.balance : BalanceKey(e[1], e[2]) \notin keys}
                 \cup {e \in out.balance : BalanceKey(e[1], e[2]) \in keys},
   approval |-> led.approval]

\* Host: a proposal is valid when no key it read has been written since the
\* snapshot it was simulated on.
Validates(reads, written) == reads \cap written = {}

\* Host: the world state after the block <<p1, p2>>, both simulated on the
\* current world state.
CommitBlock(p1, p2) ==
  LET snapshot == [nft |-> nft, balance |-> balance, approval |-> approval]
      after1 == ApplyWrites(snapshot, Simulate(p1), WriteSet(p1))
  IN IF Validates(ReadSet(p2), WriteSet(p1))
     THEN ApplyWrites(after1, Simulate(p2), WriteSet(p2))
     ELSE after1

\* The proposals that mutate the current world state.
Mutating == {p \in Proposals : Simulate(p).err = ""}

\* The pairs of transactions named by the serialisation property.
Paired(op1, op2) ==
  {op1, op2} \in {{"TransferFrom"}, {"TransferFrom", "Burn"},
                  {"Approve", "TransferFrom"}, {"MintWithTokenURI"}}

\* ------------------------------------------------------------------------
\* Record of the last move.  SpecMoved runs the same transactions as Spec and
\* remembers in last.moved the last successful TransferFrom that moved a
\* token from its owner O to a different identity N: the token, N, the
\* clients other than N that held delegated authority under O, and the
\* clients N has since named in a successful Approve of that token or
\* SetApprovalForAll(_, true).

\* The clients other than the owner that hold delegated authority over the
\* token on world state b: its approved client and the clients for which
\* IsApprovedForAll(owner, client) is true.
Delegates(b, TokenID) ==
  LET token == b.nft[TokenID]
  IN {P \in Clients \ {token.Owner} :
        P = token.Approved \/ IsApprovedForAll(b.approval, token.Owner, P)}

\* The record after a grant: a successful Approve of the token or
\* SetApprovalForAll(_, true) invoked by N adds the client it names.
Granted(m, inv) ==
  IF /\ m.TokenID # ""
     /\ inv.ok
     /\ inv.caller = m.N
     /\ \/ inv.op = "Approve" /\ inv.TokenID = m.TokenID
        \/ inv.op = "SetApprovalForAll" /\ inv.flag
  THEN [m EXCEPT !.granted = @ \cup {inv.to}]
  ELSE m

\* The record after the invocation inv executed on world state b: a
\* successful TransferFrom of a token from its owner to a different identity
\* starts a new record.
Moved(m, b, inv) ==
  IF /\ inv.op = "TransferFrom"
     /\ inv.ok
     /\ b.nft[inv.TokenID].Owner \notin {"", inv.to}
  THEN [TokenID |-> inv.TokenID,
        N |-> inv.to,
        delegates |-> Delegates(b, inv.TokenID) \ {inv.to},
        granted |-> {P \in Clients : IsApprovedForAll(b.approval, inv.to, P)}]
  ELSE Granted(m, inv)

\* The invocation record with the record of the last move carried along.
Carrying(inv) == [inv EXCEPT !.moved = last.moved]

DoMintMoved ==
  \E c \in Clients, t \in TokenIDs, u \in URIs :
    LET out == MintWithTokenURI(c, t, u)
    IN Commit(out, Carrying(Invocation("MintWithTokenURI", c, "", "", t, u, FALSE, out)))

DoTransferFromMoved ==
  \E c \in Clients, f \in Parties, to \in Parties, t \in TokenIDs :
    LET out == TransferFrom(c, f, to, t)
    IN Commit(out, Carrying(Invocation("TransferFrom", c, f, to, t, "", FALSE, out)))

DoApproveMoved ==
  \E c \in Clients, a \in Parties, t \in TokenIDs :
    LET out == Approve(c, a, t)
    IN Commit(out, Carrying(Invocation("Approve", c, "", a, t, "", FALSE, out)))

DoSetApprovalForAllMoved ==
  \E c \in Clients, o \in Operators, flag \in BOOLEAN :
    /\ <<c, o>> \in DOMAIN approval \/ Cardinality(DOMAIN approval) < MaxApprovals
    /\ LET out == SetApprovalForAll(c, o, flag)
       IN Commit(out, Carrying(Invocation("SetApprovalForAll", c, "", o, "", "", flag, out)))

DoBurnMoved ==
  \E c \in Clients, t \in TokenIDs :
    LET out == Burn(c, t)
    IN Commit(out, Carrying(Invocation("Burn", c, "", "", t, "", FALSE, out)))

\* The response is returned and the record of the last move is brought up to
\* date with the invocation.
RespondMoved ==
  /\ last.op # ""
  /\ last' = [NoInvocation EXCEPT !.moved = Moved(last.moved, before, last)]
  /\ before' = [nft |-> nft, balance |-> balance, approval |-> approval]
  /\ UNCHANGED <<nft, balance, approval, accounts>>

NextMoved ==
  \/ RespondMoved
  \/ DoMintMoved
  \/ DoTransferFromMoved
  \/ DoApproveMoved
  \/ DoSetApprovalForAllMoved
  \/ DoBurnMoved

\* SpecMoved starts from the ledgers of Init that hold at most the token "1"
\* and the account key Approve looks up.
InitMoved ==
  /\ Init
  /\ accounts = AccountKeys
  /\ DOMAIN nft \subseteq {"1"}

SpecMoved == InitMoved /\ [][NextMoved]_vars

\* ------------------------------------------------------------------------
\* Properties

\* The last invocation left the written world state as it found it.
LedgerUnchanged ==
  /\ nft = before.nft
  /\ balance = before.balance
  /\ approval = before.approval

\* Number of stored token records whose owner field is O.
OwnedCount(n, O) == Cardinality({k \in DOMAIN n : n[k].Owner = O})

\* C1: index consistency.  In every state reached by committed
\* MintWithTokenURI, TransferFrom, Approve, SetApprovalForAll and Burn
\* invocations from a consistent ledger, BalanceOf(O) equals the number of
\* stored token records whose owner is O, for every owner O.
C1_IndexConsistency ==
  \A O \in Parties : BalanceOf(balance, O) = OwnedCount(nft, O)

\* C2: mint succeeds on a fresh token.  When the caller belongs to Org1MSP,
\* tokenID parses as an integer and no record exists for tokenID,
\* MintWithTokenURI succeeds, stores owner = caller, approved = "" and
\* tokenURI = uri, adds the balance entry (caller, tokenID), so OwnerOf is the
\* caller and BalanceOf(caller) is one more than before.
C2_MintFreshSucceeds ==
  ( /\ last.op = "MintWithTokenURI"
    /\ MSPID(last.caller) = "Org1MSP"
    /\ ~Atoi(last.TokenID).err
    /\ last.TokenID \notin DOMAIN before.nft )
  => /\ last.ok
     /\ last.TokenID \in DOMAIN nft
     /\ nft[last.TokenID].Owner = last.caller
     /\ nft[last.TokenID].Approved = ""
     /\ nft[last.TokenID].TokenURI = last.uri
     /\ <<last.caller, last.TokenID>> \in balance
     /\ OwnerOf(nft, last.TokenID) = [err |-> "", value |-> last.caller]
     /\ BalanceOf(balance, last.caller) = BalanceOf(before.balance, last.caller) + 1

\* The authorization the specification states for TransferFrom(from, ., T)
\* on the token record tok.
FromAuthorized(tok, a, from) ==
  \/ from = tok.Owner
  \/ from = tok.Approved
  \/ IsApprovedForAll(a, tok.Owner, from)

\* C3: TransferFrom authorization.  A TransferFrom on an existing token
\* succeeds only if from is the owner, the approved party or an
\* approved-for-all operator of the owner; otherwise it fails, the token
\* records, balance entries and operator approvals are unchanged and no event
\* is emitted.
C3_TransferAuthorization ==
  (last.op = "TransferFrom" /\ last.TokenID \in DOMAIN before.nft)
  => LET tok == before.nft[last.TokenID]
     IN /\ last.ok => FromAuthorized(tok, before.approval, last.from)
        /\ ~FromAuthorized(tok, before.approval, last.from)
             => ~last.ok /\ LedgerUnchanged /\ last.event = NoEvent

\* A TransferFrom by a client that is neither owner nor approved was refused.
C3_Witness ==
  /\ last.op = "TransferFrom"
  /\ last.TokenID \in DOMAIN before.nft
  /\ last.from \in Clients
  /\ before.nft[last.TokenID].Owner \in Clients \ {last.from}
  /\ before.nft[last.TokenID].Approved \in Clients \ {last.from}
  /\ ~last.ok
  /\ LedgerUnchanged

\* C4: the empty string is never an identity.  For a token with approved = ""
\* and a non-empty owner that has no operator approval recorded for "",
\* TransferFrom(from = "", to, tokenID) fails and changes no state.
C4_EmptyFromRefused ==
  ( /\ last.op = "TransferFrom"
    /\ last.from = ""
    /\ last.TokenID \in DOMAIN before.nft
    /\ before.nft[last.TokenID].Approved = ""
    /\ before.nft[last.TokenID].Owner # ""
    /\ <<before.nft[last.TokenID].Owner, "">> \notin DOMAIN before.approval )
  => ~last.ok /\ LedgerUnchanged

\* C5: balances follow ownership on a delegated transfer.  When T is owned
\* by I and B (different from I) is T's approved party, a successful
\* TransferFrom(B, C, T) with C different from I makes OwnerOf(T) = C,
\* decreases BalanceOf(I) by one and increases BalanceOf(C) by one.
C5_DelegatedTransferBalances ==
  ( /\ last.op = "TransferFrom"
    /\ last.ok
    /\ last.TokenID \in DOMAIN before.nft
    /\ before.nft[last.TokenID].Owner \in Clients
    /\ last.from \in Clients
    /\ last.from = before.nft[last.TokenID].Approved
    /\ last.from # before.nft[last.TokenID].Owner
    /\ last.to \in Clients
    /\ last.to # before.nft[last.TokenID].Owner )
  => LET I == before.nft[last.TokenID].Owner
         C == last.to
     IN /\ OwnerOf(nft, last.TokenID) = [err |-> "", value |-> C]
        /\ BalanceOf(balance, I) = BalanceOf(before.balance, I) - 1
        /\ BalanceOf(balance, C) = BalanceOf(before.balance, C) + 1

\* C6: burn requires true ownership.  Burn(tokenID) by a caller who is not
\* the token's owner fails and changes no token record and no balance entry,
\* also when the caller is the token's approved party or an operator.
C6_BurnRequiresOwner ==
  ( /\ last.op = "Burn"
    /\ last.TokenID \in DOMAIN before.nft
    /\ last.caller # before.nft[last.TokenID].Owner )
  => ~last.ok /\ nft = before.nft /\ balance = before.balance

\* The approved party of a token tried to burn it and was refused.
C6_Witness ==
  /\ last.op = "Burn"
  /\ last.TokenID \in DOMAIN before.nft
  /\ before.nft[last.TokenID].Approved = last.caller
  /\ before.nft[last.TokenID].Owner \in Clients \ {last.caller}
  /\ ~last.ok
  /\ nft = before.nft

\* C7: mint is create-only.  MintWithTokenURI on a tokenID whose record has
\* a non-empty owner fails whoever the caller is; the record and all balance
\* entries are unchanged and no event is emitted.
C7_MintCreateOnly ==
  ( /\ last.op = "MintWithTokenURI"
    /\ last.TokenID \in DOMAIN before.nft
    /\ before.nft[last.TokenID].Owner # "" )
  => /\ ~last.ok
     /\ nft = before.nft
     /\ balance = before.balance
     /\ last.event = NoEvent

\* The issuer tried to mint a token that another client owns and was refused.
C7_Witness ==
  /\ last.op = "MintWithTokenURI"
  /\ MSPID(last.caller) = "Org1MSP"
  /\ last.TokenID \in DOMAIN before.nft
  /\ before.nft[last.TokenID].Owner \in Clients \ {last.caller}
  /\ last.err = "already minted"
  /\ nft = before.nft

\* C8: only the issuer organization can mint.  In every ledger state a
\* MintWithTokenURI by a caller outside Org1MSP fails, writes no token record
\* and no balance entry, and emits no event.
C8_OnlyIssuerMints ==
  (last.op = "MintWithTokenURI" /\ MSPID(last.caller) # "Org1MSP")
  => /\ ~last.ok
     /\ nft = before.nft
     /\ balance = before.balance
     /\ last.event = NoEvent

\* A client outside Org1MSP tried to mint a tokenID that was free to mint
\* (its record has no owner) and was refused.
C8_Witness ==
  /\ last.op = "MintWithTokenURI"
  /\ MSPID(last.caller) = "Org2MSP"
  /\ last.TokenID \in DOMAIN before.nft
  /\ before.nft[last.TokenID].Owner = ""
  /\ ~Atoi(last.TokenID).err
  /\ ~last.ok
  /\ nft = before.nft

\* C9: transfer clears approval.  Immediately after a successful
\* TransferFrom, whatever the approved field was before, GetApproved(tokenID)
\* returns the empty string.
C9_TransferClearsApproval ==
  (last.op = "TransferFrom" /\ last.ok)
  => GetApproved(nft, last.TokenID) = [err |-> "", value |-> ""]

\* A token that had an approved client was transferred.
C9_Witness ==
  /\ last.op = "TransferFrom"
  /\ last.ok
  /\ last.TokenID \in DOMAIN before.nft
  /\ before.nft[last.TokenID].Approved \in Clients
  /\ nft[last.TokenID].Owner = last.to

\* C10: approval-for-all round trip.  After A's SetApprovalForAll(B, true)
\* succeeds IsApprovedForAll(A, B) is true, after A's SetApprovalForAll(B,
\* false) succeeds it is false, and a pair never granted gives false.
C10_ApprovalRoundTrip ==
  /\ (last.op = "SetApprovalForAll" /\ last.ok)
       => IsApprovedForAll(approval, last.caller, last.to) = last.flag
  /\ \A A \in Clients, B \in Parties :
       <<A, B>> \notin DOMAIN approval => ~IsApprovedForAll(approval, A, B)

\* C11: the owner can approve.  Where token T exists with owner I, an
\* Approve(B, T) by I for a non-empty identity B succeeds, GetApproved(T) is B
\* afterwards, and the token's owner, tokenID and tokenURI and all balance
\* entries are unchanged.
C11_OwnerCanApprove ==
  ( /\ last.op = "Approve"
    /\ last.TokenID \in DOMAIN before.nft
    /\ before.nft[last.TokenID].Owner = last.caller
    /\ last.to \in Clients )
  => /\ last.ok
     /\ GetApproved(nft, last.TokenID) = [err |-> "", value |-> last.to]
     /\ nft[last.TokenID].Owner = before.nft[last.TokenID].Owner
     /\ nft[last.TokenID].TokenID = before.nft[last.TokenID].TokenID
     /\ nft[last.TokenID].TokenURI = before.nft[last.TokenID].TokenURI
     /\ balance = before.balance

\* C12: Approve authorization.  Approve changes the approved field only when
\* the caller is the token's owner or an approved-for-all operator of the
\* owner; a call by anyone else, the token's approved party included, fails,
\* leaves the token record unchanged and emits no event.
C12_ApproveAuthorization ==
  (last.op = "Approve" /\ last.TokenID \in DOMAIN before.nft)
  => LET tok == before.nft[last.TokenID]
         authorized == \/ last.caller = tok.Owner
                       \/ IsApprovedForAll(before.approval, tok.Owner, last.caller)
     IN /\ nft[last.TokenID].Approved # tok.Approved => authorized
        /\ ~authorized => ~last.ok /\ nft = before.nft /\ last.event = NoEvent

\* The approved party of a token, not its owner, tried to approve an existing
\* account for the token and was refused.
C12_Witness ==
  /\ last.op = "Approve"
  /\ last.TokenID \in DOMAIN before.nft
  /\ before.nft[last.TokenID].Approved = last.caller
  /\ before.nft[last.TokenID].Owner \in Clients \ {last.caller}
  /\ last.to \in accounts
  /\ last.to # last.caller
  /\ ~last.ok
  /\ nft = before.nft

\* C13: burn effect.  A successful Burn(T) by owner C deletes T's record and
\* the balance entry (C, T): afterwards OwnerOf(T) and GetApproved(T) fail
\* with not-found, BalanceOf(C) is one less than before, and every other
\* token record and balance entry is unchanged.
C13_BurnEffect ==
  (last.op = "Burn" /\ last.ok)
  => LET T == last.TokenID
         C == last.caller
     IN /\ T \notin DOMAIN nft
        /\ <<C, T>> \notin balance
        /\ ReadNFT(nft, T).err = "does not exist"
        /\ OwnerOf(nft, T).err # ""
        /\ GetApproved(nft, T).err # ""
        /\ BalanceOf(balance, C) = BalanceOf(before.balance, C) - 1
        /\ nft = DelNFT(before.nft, T)
        /\ balance = before.balance \ {<<C, T>>}

\* An owner burned a token that had an approved client.
C13_Witness ==
  /\ last.op = "Burn"
  /\ last.ok
  /\ last.TokenID \in DOMAIN before.nft
  /\ before.nft[last.TokenID].Owner = last.caller
  /\ before.nft[last.TokenID].Approved \in Clients
  /\ BalanceOf(before.balance, last.caller) = 1
  /\ BalanceOf(balance, last.caller) = 0

\* C14: a token with empty owner does not exist for any operation.  After
\* any sequence of operations the token read reports not-found when no record
\* is stored for the tokenID or the stored owner is ""; GetApproved(T) never
\* succeeds for a T whose stored owner is "".
C14_EmptyOwnerNotFound ==
  \A T \in TokenIDs :
    (T \notin DOMAIN nft \/ nft[T].Owner = "")
    => ReadNFT(nft, T).err # "" /\ GetApproved(nft, T).err # ""

\* C15: storage failures fail the invocation.  If a PutState or DeleteState
\* issued during MintWithTokenURI, TransferFrom, Approve, SetApprovalForAll or
\* Burn fails, the invocation reports failure and emits no event.
C15_FailedWriteFailsInvocation ==
  last.fault # 0 => ~last.ok /\ last.event = NoEvent

\* C18: no partial application persists.  The host commits the writes of an
\* invocation unless it returns an error; when one of its writes failed
\* (Burn's balance-index delete after the token-record delete, a later index
\* write of TransferFrom), none of that invocation's writes is committed.
C18_NoPartialApplication ==
  last.fault # 0 => LedgerUnchanged

\* C17: TransferFrom does not depend on the invoking identity.  On every
\* ledger state and for all arguments (from, to, tokenID), two TransferFrom
\* invocations that differ only in the caller give the same outcome, the
\* same resulting ledger and the same event.
C17_TransferIgnoresCaller ==
  last.op = ""
  => \A c1 \in Clients, c2 \in Clients, from \in Parties, to \in Parties,
        T \in TokenIDs :
       TransferFrom(c1, from, to, T) = TransferFrom(c2, from, to, T)

\* A client that is neither `from`, the owner nor the approved client of the
\* token has transferred it by naming an authorized `from`.
C17_Witness ==
  /\ last.op = "TransferFrom"
  /\ last.ok
  /\ last.from # ""
  /\ last.caller # last.from
  /\ last.caller # before.nft[last.TokenID].Owner
  /\ last.caller # before.nft[last.TokenID].Approved
  /\ nft[last.TokenID].Owner = last.to
  /\ last.event # NoEvent

\* C16: uniqueness of tokenID.  In every reachable ledger state, for every
\* integer tokenID there is at most one stored token record with a non-empty
\* owner whose TokenID field has that value, also when the operations are
\* invoked with different argument strings that parse to the same integer.
C16_TokenIDUnique ==
  \A k1 \in DOMAIN nft, k2 \in DOMAIN nft :
    /\ nft[k1].Owner # ""
    /\ nft[k2].Owner # ""
    /\ nft[k1].TokenID = nft[k2].TokenID
    => k1 = k2

\* The issuer mints under an argument string that parses to the tokenID of a
\* live token stored under another string, and is refused: no record is
\* stored under the new string.
C16_Witness ==
  /\ last.op = "MintWithTokenURI"
  /\ MSPID(last.caller) = IssuerMSP
  /\ ~Atoi(last.TokenID).err
  /\ last.TokenID \notin DOMAIN before.nft
  /\ \E k \in DOMAIN nft :
       /\ k # last.TokenID
       /\ nft[k].Owner # ""
       /\ nft[k].TokenID = Atoi(last.TokenID).val
  /\ ~last.ok
  /\ LedgerUnchanged

\* C19: concurrent mutations of one token are serialised by version-checked
\* commit.  When two mutating invocations on the same tokenID
\* (TransferFrom/TransferFrom, TransferFrom/Burn, Approve/TransferFrom,
\* Mint/Mint) are simulated on the same world state, only the first one
\* commits, and the committed world state is the one the first leaves when
\* run alone.
C19_VersionCheckedCommit ==
  last.op = ""
  => \A p1 \in Mutating, p2 \in Mutating :
       /\ Paired(p1.op, p2.op)
       /\ Atoi(p1.TokenID).val = Atoi(p2.TokenID).val
       => /\ ~Validates(ReadSet(p2), WriteSet(p1))
          /\ CommitBlock(p1, p2) = [nft |-> Simulate(p1).nft,
                                    balance |-> Simulate(p1).balance,
                                    approval |-> Simulate(p1).approval]

\* A TransferFrom and a Burn of the same token both succeed on the current
\* world state, and the one ordered second is invalid.
C19_Witness ==
  /\ last.op = ""
  /\ \E p1 \in Mutating, p2 \in Mutating :
       /\ p1.op = "TransferFrom"
       /\ p2.op = "Burn"
       /\ p1.TokenID = p2.TokenID
       /\ ~Validates(ReadSet(p2), WriteSet(p1))
       /\ ~Validates(ReadSet(p1), WriteSet(p2))
       /\ CommitBlock(p1, p2) # CommitBlock(p2, p1)

\* C20: delegated authority does not survive a transfer.  After a successful
\* TransferFrom has moved token T from its owner O to a different identity N,
\* no client P other than N whose authority over T was that of T's approved
\* client or of an approved-for-all operator of O, that is no approved-for-all
\* operator of N and that N has not named in an approval since, can make
\* TransferFrom(P, x, T) succeed for any x, for as long as N is the owner of T.
C20_DelegationEndsAtTransfer ==
  LET m == Granted(last.moved, last)
  IN /\ m.TokenID \in DOMAIN nft
     /\ nft[m.TokenID].Owner = m.N
     => \A P \in m.delegates \ m.granted, c \in Clients, x \in Parties :
          TransferFrom(c, P, x, m.TokenID).err # ""

\* C20 as stated: after the move, P cannot make TransferFrom(P, x, T) succeed
\* until N grants P an approval.
C20_LockedOutUntilGranted ==
  LET m == Granted(last.moved, last)
  IN m.TokenID # ""
     => \A P \in m.delegates \ m.granted, c \in Clients, x \in Parties :
          TransferFrom(c, P, x, m.TokenID).err # ""

\* The client that was the approved client of T under O names itself as
\* `from` after the move to N and is refused.
C20_Witness ==
  LET m == Granted(last.moved, last)
  IN /\ m.TokenID \in DOMAIN nft
     /\ nft[m.TokenID].Owner = m.N
     /\ last.op = "TransferFrom"
     /\ last.TokenID = m.TokenID
     /\ last.from \in m.delegates \ m.granted
     /\ ~last.ok
     /\ LedgerUnchanged

====
